---- MODULE Spec2Model ----
(***************************************************************************)
(* State-machine model of the Graph request dispatcher (class GraphClient  *)
(* of src/src/oauth-provider.ts, lines 89-651): the per-file workbook      *)
(* session cache, the bearer-token fields and the retry / scope-expansion  *)
(* logic of makeRequest, together with the part of the AuthManager         *)
(* interface the dispatcher calls.  Every `await` of the TypeScript code   *)
(* is a point where another dispatch may run, so each action below is the  *)
(* synchronous code between two awaits.  options.accessToken,              *)
(* options.refreshToken and options.headers are not supplied by the calls  *)
(* followed here.  Further down: the tool handler of graph-tools.ts that   *)
(* calls the dispatcher, closeSession / closeAllSessions,                  *)
(* formatJsonResponse on JSON values, the registration of the catalog      *)
(* operations as tools, the login and account tools, and the /mcp routes   *)
(* of HTTP mode.                                                           *)
(***************************************************************************)
EXTENDS Naturals, Sequences, FiniteSets

\* Number of graphRequest calls the model follows.
MaxCalls == 2

\* The calls in progress: at most two overlap.  A call that has returned
\* leaves its record until the next call takes its place.
Dispatches == {1, 2}

VARIABLES
    sessions,       \* GraphClient.sessions : Map<filePath, sessionId>
    accessToken,    \* GraphClient.accessToken   ("" models null)
    refreshToken,   \* GraphClient.refreshToken  ("" models null)
    amToken,        \* token AuthManager.getToken() hands out ("" : none cached)
    workPerms,      \* AuthManager.hasWorkAccountPermissions()
    created,        \* history: ids the upstream created, per file path
    disp,           \* one record per graphRequest call in progress
    calls,          \* history: number of calls that have arrived
    closer,         \* the closeSession / closeAllSessions call in progress
    callerData,     \* the object a caller of formatJsonResponse passes as data
    rawResponse,    \* the rawResponse argument of that call
    resultText,     \* content[0].text it returned, as tokens (<<>> : not called)
    options,        \* MicrosoftGraphServer.options (readOnly, enabledTools)
    serverPc,       \* "constructed", then "initialized"
    registered,     \* aliases handed to server.tool by registerGraphTools
    toolCalls,      \* history: calls of registered tools and what they sent
    accounts,       \* AuthManager: ids of the cached accounts
    selectedAccount,\* AuthManager: the selected account id (NoAccount : none)
    login,          \* the call of the login tool in progress
    accountTool,    \* the select-account / remove-account call in progress
    build,          \* which MicrosoftGraphServer.start serves HTTP
    httpLog,        \* history: the /mcp requests handled and where they ended
    route           \* one endpoint classified by both dispatch paths

\* the state of a formatJsonResponse call
normVars == <<callerData, rawResponse, resultText>>

\* the state of the MicrosoftGraphServer around the GraphClient
regVars == <<options, serverPc, registered, toolCalls>>
authVars == <<accounts, selectedAccount, login, accountTool>>
httpVars == <<build, httpLog>>
routeVars == <<route>>
serverVars == <<regVars, authVars, httpVars, routeVars>>

\* the state of the GraphClient and of the AuthManager it calls
clientVars == <<sessions, accessToken, refreshToken, amToken,
                workPerms, created, disp, calls, closer>>

vars == <<sessions, accessToken, refreshToken, amToken,
          workPerms, created, disp, calls, closer, normVars, serverVars>>

---------------------------------------------------------------------------
(* Inputs *)

\* `let sessionId: string | null = null`: 0 models null, ids are 1, 2, ...
NoSession == 0

\* options.excelFile values ("" : the option is absent)
Paths == {"/Reports/Q1.xlsx", "/Book2.xlsx"}

\* endpoints, as character sequences so that startsWith is computed
EpWorkbookRange == <<"/","w","o","r","k","b","o","o","k","/","r","a","n","g","e">>
EpMeMessages == <<"/","m","e","/","m","e","s","s","a","g","e","s">>
Endpoints == {EpWorkbookRange, EpMeMessages}

\* Upstream responses: status and body text.  A 204 has an empty body.
Responses ==
    { [status |-> 200, body |-> "data"],
      [status |-> 204, body |-> ""],
      [status |-> 401, body |-> "InvalidAuthenticationToken"],
      [status |-> 403, body |-> "Insufficient privileges: missing scope"],
      [status |-> 403, body |-> "Forbidden"],
      [status |-> 404, body |-> "itemNotFound"] }

\* Response.ok
Ok(resp) == resp.status >= 200 /\ resp.status <= 299

\* errorText.includes('scope') || errorText.includes('permission'), on the
\* body texts the model uses (Responses holds one body with "scope")
IncludesScope(body) == body = "Insufficient privileges: missing scope"
IncludesPermission(body) == body = "Missing permission"
ScopeSignature(body) == IncludesScope(body) \/ IncludesPermission(body)

StartsWith(s, p) == Len(p) <= Len(s) /\ SubSeq(s, 1, Len(p)) = p

ScopedPrefixes ==
    { <<"/","d","r","i","v","e">>,
      <<"/","u","s","e","r","s">>,
      <<"/","m","e">>,
      <<"/","t","e","a","m","s">>,
      <<"/","c","h","a","t","s">>,
      <<"/","p","l","a","n","n","e","r">> }

HasScopedPrefix(endpoint) == \E p \in ScopedPrefixes : StartsWith(endpoint, p)

---------------------------------------------------------------------------
(* Results of graphRequest *)

NoResult == [isError |-> FALSE, text |-> "", status |-> 0, body |-> "", set |-> FALSE]

\* { content: [{ text: JSON.stringify({ error: message }) }], isError: true };
\* `status` and `body` are the upstream status and body the message embeds.
ErrorResult(text, status, body) ==
    [isError |-> TRUE, text |-> text, status |-> status, body |-> body, set |-> TRUE]

\* formatJsonResponse(data): a result without isError
SuccessResult(data) ==
    [isError |-> FALSE, text |-> "", status |-> 0, body |-> data, set |-> TRUE]

\* formatJsonResponse applied to what makeRequest resolved to.  A Response
\* object (the un-awaited retry) has no own enumerable keys: it prints "{}".
FormatJsonResponse(data) == SuccessResult(data)
RawResponseObject == "{}"

---------------------------------------------------------------------------
(* Dispatch records *)

\* graphRequest(endpoint) without method, headers or body
NoOptions == [method |-> "", headers |-> <<>>, body |-> <<>>]

Idle ==
    [ pc |-> "idle", endpoint |-> <<>>, excelFile |-> "", options |-> NoOptions,
      accessToken |-> "", refreshToken |-> "", sessionId |-> NoSession,
      sent |-> <<>>, attempts |-> 0, responses |-> <<>>,
      nCreate |-> 0, nRefresh |-> 0, nExpand |-> 0,
      hasWork |-> "unasked", expanded |-> "unasked",
      result |-> NoResult ]

\* A call that returned keeps no locals: its record holds what the caller got
\* (result) and what happened on the way (responses, counters).
Finished(r, result) ==
    [Idle EXCEPT !.pc = "done", !.result = result,
                 !.responses = r.responses, !.attempts = r.attempts,
                 !.nCreate = r.nCreate, !.nRefresh = r.nRefresh,
                 !.nExpand = r.nExpand, !.hasWork = r.hasWork,
                 !.expanded = r.expanded]

\* graphRequest's catch: the thrown error becomes an error result
Throw(r, text, status, body) == Finished(r, ErrorResult(text, status, body))

\* graphRequest: return this.formatJsonResponse(result, options.rawResponse)
Return(r, data) == Finished(r, FormatJsonResponse(data))

\* Faulty variant: the cache is not consulted before creating a session.
CachedSessionNever(file) == NoSession

\* this.sessions.get(options.excelFile) || null
CachedSession(file) == sessions[file]

FileUrl(file, endpoint) == [root |-> file, path |-> endpoint]
PlainUrl(endpoint) == [root |-> "", path |-> endpoint]

\* Header names and values of a request.  A value is the bearer form of a
\* token, a session id, or text.
AuthorizationName == <<"A","u","t","h","o","r","i","z","a","t","i","o","n">>
ContentTypeName == <<"C","o","n","t","e","n","t","-","T","y","p","e">>
SessionHeaderName == <<"w","o","r","k","b","o","o","k","-","s","e","s","s","i","o","n","-","i","d">>
ApplicationJson == <<"a","p","p","l","i","c","a","t","i","o","n","/","j","s","o","n">>

BearerValue(token) == [kind |-> "bearer", token |-> token, session |-> NoSession, text |-> <<>>]
SessionValue(sid) == [kind |-> "session", token |-> "", session |-> sid, text |-> <<>>]
TextValue(text) == [kind |-> "text", token |-> "", session |-> NoSession, text |-> text]

\* obj[key] = value on an object with insertion-ordered keys
SetEntry(entries, key, value) ==
    IF \E i \in 1..Len(entries) : entries[i].key = key
    THEN [i \in 1..Len(entries) |->
             IF entries[i].key = key THEN [key |-> key, value |-> value]
             ELSE entries[i]]
    ELSE Append(entries, [key |-> key, value |-> value])

\* { ...entries, ...options.headers }
RECURSIVE SpreadHeaders(_, _)
SpreadHeaders(entries, callerHeaders) ==
    IF callerHeaders = <<>> THEN entries
    ELSE SpreadHeaders(SetEntry(entries, Head(callerHeaders).key,
                                TextValue(Head(callerHeaders).value)),
                       Tail(callerHeaders))

\* Faulty variant: the caller's headers are left out of the request.
RequestHeadersWithoutCallers(token, sid, callerHeaders) ==
    <<[key |-> AuthorizationName, value |-> BearerValue(token)],
      [key |-> ContentTypeName, value |-> TextValue(ApplicationJson)]>>
        \o (IF sid # NoSession
            THEN <<[key |-> SessionHeaderName, value |-> SessionValue(sid)]>>
            ELSE <<>>)

\* lines 260-265: the headers object of performRequest
RequestHeaders(token, sid, callerHeaders) ==
    SpreadHeaders(
        <<[key |-> AuthorizationName, value |-> BearerValue(token)],
          [key |-> ContentTypeName, value |-> TextValue(ApplicationJson)]>>
            \o (IF sid # NoSession
                THEN <<[key |-> SessionHeaderName, value |-> SessionValue(sid)]>>
                ELSE <<>>),
        callerHeaders)

\* Faulty variant: an attempt after the first is sent without the body.
FetchDropsBodyOnRetry(r, url, sid) ==
    [r EXCEPT !.pc = "fetching", !.sessionId = sid, !.attempts = @ + 1,
              !.sent = Append(@, [url |-> url, token |-> r.accessToken,
                                  session |-> sid,
                                  method |-> IF r.options.method = "" THEN "GET"
                                             ELSE r.options.method,
                                  headers |-> RequestHeaders(r.accessToken, sid,
                                                             r.options.headers),
                                  body |-> IF r.attempts = 0 THEN r.options.body
                                           ELSE <<>>])]

\* lines 260-271: fetch(url, { method: options.method || 'GET', headers,
\* body: options.body }); token is the accessToken argument, session the
\* sessionId local
Fetch(r, url, sid) ==
    [r EXCEPT !.pc = "fetching", !.sessionId = sid, !.attempts = @ + 1,
              !.sent = Append(@, [url |-> url, token |-> r.accessToken,
                                  session |-> sid,
                                  method |-> IF r.options.method = "" THEN "GET"
                                             ELSE r.options.method,
                                  headers |-> RequestHeaders(r.accessToken, sid,
                                                             r.options.headers),
                                  body |-> r.options.body])]

\* Faulty variant: the resource-scoped prefixes are not tested when a file
\* is given.
PerformRequestFileFirst(r) ==
    IF r.excelFile # ""
    THEN IF CachedSession(r.excelFile) # NoSession
         THEN Fetch(r, FileUrl(r.excelFile, r.endpoint), CachedSession(r.excelFile))
         ELSE [r EXCEPT !.pc = "creating", !.nCreate = @ + 1]
    ELSE IF HasScopedPrefix(r.endpoint)
         THEN Fetch(r, PlainUrl(r.endpoint), NoSession)
         ELSE Throw(r, "Excel operation requested without specifying a file", 0, "")

\* Faulty variant: without a file and without a resource-scoped prefix the
\* request is sent to the plain URL.
PerformRequestNoFailFast(r) ==
    IF r.excelFile # "" /\ ~HasScopedPrefix(r.endpoint)
    THEN IF CachedSession(r.excelFile) # NoSession
         THEN Fetch(r, FileUrl(r.excelFile, r.endpoint), CachedSession(r.excelFile))
         ELSE [r EXCEPT !.pc = "creating", !.nCreate = @ + 1]
    ELSE Fetch(r, PlainUrl(r.endpoint), NoSession)

\* The synchronous part of performRequest, up to its first await.
PerformRequest(r) ==
    IF r.excelFile # "" /\ ~HasScopedPrefix(r.endpoint)
    THEN IF CachedSession(r.excelFile) # NoSession
         THEN Fetch(r, FileUrl(r.excelFile, r.endpoint), CachedSession(r.excelFile))
         ELSE [r EXCEPT !.pc = "creating", !.nCreate = @ + 1]
    ELSE IF HasScopedPrefix(r.endpoint)
         THEN Fetch(r, PlainUrl(r.endpoint), NoSession)
         ELSE Throw(r, "Excel operation requested without specifying a file", 0, "")

\* The closeSession or closeAllSessions call in progress: `all` tells which,
\* file / sessionId are closeSession's locals, visited the Map entries the
\* loop of closeAllSessions has passed, results the closeSession results
\* returned so far.  atCall (the paths cached when the call arrived) and reqs
\* (the closeSession requests sent) are history.
IdleCloser ==
    [ pc |-> "idle", all |-> FALSE, file |-> "", sessionId |-> NoSession,
      visited |-> {}, results |-> <<>>, atCall |-> {}, reqs |-> <<>> ]

---------------------------------------------------------------------------
(* JSON values, as formatJsonResponse sees them: a node has a kind and, in *)
(* val, the entries of an object in insertion order, the items of an       *)
(* array, or the text of a string.                                         *)

Null == [kind |-> "null", val |-> <<>>]
Str(v) == [kind |-> "string", val |-> <<v>>]
Arr(items) == [kind |-> "array", val |-> items]
Obj(entries) == [kind |-> "object", val |-> entries]

\* after construction: GraphClient, with no formatJsonResponse call made
InitClient ==
    /\ sessions = [p \in Paths |-> NoSession]
    /\ accessToken = ""
    /\ refreshToken = ""
    /\ amToken \in {"", "tAM"}
    /\ workPerms = FALSE
    /\ created = [p \in Paths |-> {}]
    /\ disp = [d \in Dispatches |-> Idle]
    /\ calls = 0
    /\ closer = IdleCloser

\* undefined, for an option that was not given
NoPattern == <<>>

\* new MicrosoftGraphServer(authManager, options) with no option given
NoAccount == ""

\* no call of the login tool (success: loginStatus.success, once returned)
IdleLogin ==
    [pc |-> "idle", force |-> FALSE, nTestLogin |-> 0, success |-> "unasked",
     nDeviceCode |-> 0, text |-> ""]

\* no call of select-account / remove-account (cli: made by the --select-account
\* / --remove-account option instead of the tool; exit: process.exit code)
IdleAccountTool ==
    [pc |-> "idle", cli |-> FALSE, accountId |-> "", text |-> "", exit |-> ""]

\* registerAuthTools(server, authManager) with no account cached
InitAuthIdle ==
    /\ accounts = {}
    /\ selectedAccount = NoAccount
    /\ login = IdleLogin
    /\ accountTool = IdleAccountTool

\* no endpoint being classified
IdleRoute ==
    [pc |-> "idle", endpoint |-> <<>>, excelFile |-> "", active |-> "", legacy |-> ""]

\* no HTTP request handled
InitHttpIdle ==
    /\ build = "part_001"
    /\ httpLog = {}
    /\ route = IdleRoute

InitServer ==
    /\ options = [readOnly |-> FALSE, enabledTools |-> NoPattern]
    /\ serverPc = "constructed"
    /\ registered = {}
    /\ toolCalls = {}
    /\ InitAuthIdle
    /\ InitHttpIdle

Init ==
    /\ InitClient
    /\ callerData = Null /\ rawResponse = FALSE /\ resultText = <<>>
    /\ InitServer

---------------------------------------------------------------------------
(* AuthManager, at the interface the dispatcher uses *)

\* getToken(): the cached token; it throws when no account is cached
GetToken == amToken
GetTokenThrows == amToken = ""

\* hasWorkAccountPermissions()
HasWorkAccountPermissions == workPerms

\* expandToWorkAccountScopes() can succeed only for a cached account
CanExpand == amToken # ""

---------------------------------------------------------------------------
(* GraphClient *)

\* A new call takes the first record that is not in progress.
Free(d) == disp[d].pc \in {"idle", "done"}

MayStart(d) ==
    /\ calls < MaxCalls
    /\ Free(d)
    /\ \A e \in Dispatches : e < d => ~Free(e)

\* HTTP mode: the /mcp route calls setOAuthTokens(accessToken, refreshToken)
\* with the tokens of the inbound request, then hands the request to the
\* transport, which reaches the tool handler later.
SetOAuthTokens(d, a, rt) ==
    /\ MayStart(d)
    /\ accessToken' = a
    /\ refreshToken' = rt
    /\ disp' = [disp EXCEPT ![d] = [Idle EXCEPT !.pc = "inbound"]]
    /\ calls' = calls + 1
    /\ UNCHANGED <<sessions, amToken, workPerms, created, closer, normVars, serverVars>>

\* graphRequest(endpoint, options) -> makeRequest, up to the first await;
\* file is options.excelFile, opts the method, headers and body of options
StartRequest(d, endpoint, file, opts) ==
    /\ MayStart(d) \/ disp[d].pc = "inbound"
    /\ LET r == [Idle EXCEPT !.endpoint = endpoint, !.excelFile = file,
                             !.options = opts]
       IN  disp' = [disp EXCEPT ![d] =
                IF accessToken # ""
                THEN PerformRequest([r EXCEPT !.accessToken = accessToken,
                                              !.refreshToken = refreshToken])
                ELSE [r EXCEPT !.pc = "getToken"]]
    /\ calls' = IF disp[d].pc = "inbound" THEN calls ELSE calls + 1
    /\ UNCHANGED <<sessions, accessToken, refreshToken, amToken,
                   workPerms, created, closer, normVars, serverVars>>

\* graphRequest(endpoint, { excelFile: file })
Start(d, endpoint, file) == StartRequest(d, endpoint, file, NoOptions)

\* Faulty variant: a getToken failure is swallowed and the call goes on
\* without a token.
GetTokenReturnSwallows(d) ==
    /\ disp[d].pc = "getToken"
    /\ LET r == disp[d]
       IN  disp' = [disp EXCEPT ![d] =
                PerformRequest([r EXCEPT !.accessToken = GetToken,
                                         !.refreshToken = refreshToken])]
    /\ UNCHANGED <<sessions, accessToken, refreshToken, amToken,
                   workPerms, created, calls, closer, normVars, serverVars>>

\* `await this.authManager.getToken()` of makeRequest returns or throws
GetTokenReturn(d) ==
    /\ disp[d].pc = "getToken"
    /\ LET r == disp[d]
       IN  disp' = [disp EXCEPT ![d] =
                IF GetTokenThrows
                THEN Throw(r, "No valid token found", 0, "")
                ELSE PerformRequest([r EXCEPT !.accessToken = GetToken,
                                              !.refreshToken = refreshToken])]
    /\ UNCHANGED <<sessions, accessToken, refreshToken, amToken,
                   workPerms, created, calls, closer, normVars, serverVars>>

\* result.id of the upstream createSession answer: an id the upstream has
\* not handed out for this file before (the ids of a file are 1, 2, ...)
NewSessionId(file) == Cardinality(created[file]) + 1

\* createSessionWithToken after its fetch: the upstream answers the
\* createSession request; performRequest then sends the request itself.
CreateReturn(d, ok) ==
    /\ disp[d].pc = "creating"
    /\ LET r == disp[d]
           url == FileUrl(r.excelFile, r.endpoint)
           id == NewSessionId(r.excelFile)
       IN  IF ok
           THEN /\ sessions' = [sessions EXCEPT ![r.excelFile] = id]
                /\ created' = [created EXCEPT ![r.excelFile] = @ \cup {id}]
                /\ disp' = [disp EXCEPT ![d] = Fetch(r, url, id)]
           ELSE /\ disp' = [disp EXCEPT ![d] = Fetch(r, url, NoSession)]
                /\ UNCHANGED <<sessions, created>>
    /\ UNCHANGED <<accessToken, refreshToken, amToken, workPerms, calls, closer, normVars, serverVars>>

\* Faulty variant: the response to the retry is classified like the first.
InspectedEveryAttempt(r) == TRUE

\* Only the response to the first attempt is inspected by makeRequest; the
\* retry is `return this.performRequest(...)`.
Inspected(r) == r.attempts = 1

\* Faulty variant: the scope error leaves out the upstream body.
ScopeErrorWithoutBody(r, resp) ==
    Throw(r, "Microsoft Graph API scope error", resp.status, "")

\* throw new Error(`Microsoft Graph API scope error: ${status} ... - ${errorText}`)
ScopeError(r, resp) ==
    Throw(r, "Microsoft Graph API scope error", resp.status, resp.body)

\* Faulty variant: every 401 starts a refresh, with or without a refresh
\* token.
ClassifyRefreshesAlways(r, resp) ==
    IF resp.status = 401
    THEN [r EXCEPT !.pc = "refreshing", !.nRefresh = @ + 1]
    ELSE IF resp.status = 403
    THEN IF ScopeSignature(resp.body)
         THEN [r EXCEPT !.pc = "checkPerms"]
         ELSE ScopeError(r, resp)
    ELSE IF ~Ok(resp)
    THEN Throw(r, "Microsoft Graph API error", resp.status, "")
    ELSE IF resp.body = ""
    THEN Throw(r, "Unexpected end of JSON input", 0, "")
    ELSE Return(r, resp.body)

\* makeRequest, lines 161-200, on the response `resp` to the first attempt
Classify(r, resp) ==
    IF resp.status = 401 /\ r.refreshToken # ""
    THEN [r EXCEPT !.pc = "refreshing", !.nRefresh = @ + 1]
    ELSE IF resp.status = 403
    THEN IF ScopeSignature(resp.body)
         THEN [r EXCEPT !.pc = "checkPerms"]
         ELSE ScopeError(r, resp)
    ELSE IF ~Ok(resp)
    THEN Throw(r, "Microsoft Graph API error", resp.status, "")
    ELSE IF resp.body = ""
    THEN Throw(r, "Unexpected end of JSON input", 0, "")
    ELSE Return(r, resp.body)

\* the upstream answers the request of the operation
Respond(d, resp) ==
    /\ disp[d].pc = "fetching"
    /\ LET r == [disp[d] EXCEPT !.responses = Append(@, resp)]
       IN  disp' = [disp EXCEPT ![d] =
                IF Inspected(r) THEN Classify(r, resp)
                ELSE Return(r, RawResponseObject)]
    /\ UNCHANGED <<sessions, accessToken, refreshToken, amToken,
                   workPerms, created, calls, closer, normVars, serverVars>>

\* refreshAccessToken returned or threw (MS365_MCP_CLIENT_SECRET missing, or
\* the token endpoint refused); after a refresh comes the retry.  The token
\* endpoint may rotate the refresh token.
RefreshReturn(d, ok, rotated) ==
    /\ disp[d].pc = "refreshing"
    /\ LET r == disp[d]
       IN  IF ok
           THEN /\ accessToken' = "tRef"
                /\ refreshToken' = IF rotated THEN "rRot" ELSE refreshToken
                /\ disp' = [disp EXCEPT ![d] =
                       PerformRequest([r EXCEPT !.accessToken = "tRef"])]
           ELSE /\ ~rotated
                /\ disp' = [disp EXCEPT ![d] =
                       Throw(r, "Failed to refresh token", 0, "")]
                /\ UNCHANGED <<accessToken, refreshToken>>
    /\ UNCHANGED <<sessions, amToken, workPerms, created, calls, closer, normVars, serverVars>>

\* hasWorkAccountPermissions with its answer disregarded: every scope 403
\* goes on to an expansion
CheckPermsReturnAlwaysExpands(d) ==
    /\ disp[d].pc = "checkPerms"
    /\ disp' = [disp EXCEPT ![d] =
            [disp[d] EXCEPT !.hasWork = "no", !.pc = "expanding", !.nExpand = @ + 1]]
    /\ UNCHANGED <<sessions, accessToken, refreshToken, amToken,
                   workPerms, created, calls, closer, normVars, serverVars>>

\* `await this.authManager.hasWorkAccountPermissions()` returned
CheckPermsReturn(d) ==
    /\ disp[d].pc = "checkPerms"
    /\ LET r == [disp[d] EXCEPT !.hasWork =
                    IF HasWorkAccountPermissions THEN "yes" ELSE "no"]
       IN  disp' = [disp EXCEPT ![d] =
                IF HasWorkAccountPermissions
                THEN ScopeError(r, r.responses[1])
                ELSE [r EXCEPT !.pc = "expanding", !.nExpand = @ + 1]]
    /\ UNCHANGED <<sessions, accessToken, refreshToken, amToken,
                   workPerms, created, calls, closer, normVars, serverVars>>

\* `await this.authManager.expandToWorkAccountScopes()` returned
ExpandReturn(d, ok) ==
    /\ disp[d].pc = "expanding"
    /\ LET r == disp[d]
       IN  IF ok
           THEN /\ CanExpand
                /\ workPerms' = TRUE
                /\ amToken' = "tWork"
                /\ disp' = [disp EXCEPT ![d] =
                       [r EXCEPT !.pc = "newToken", !.expanded = "yes"]]
           ELSE /\ disp' = [disp EXCEPT ![d] =
                       ScopeError([r EXCEPT !.expanded = "no"], r.responses[1])]
                /\ UNCHANGED <<workPerms, amToken>>
    /\ UNCHANGED <<sessions, accessToken, refreshToken, created, calls, closer, normVars, serverVars>>

\* `await this.authManager.getToken()` after the expansion, then the retry
NewTokenReturn(d) ==
    /\ disp[d].pc = "newToken"
    /\ LET r == disp[d]
       IN  disp' = [disp EXCEPT ![d] =
                IF GetTokenThrows
                THEN Throw(r, "No valid token found", 0, "")
                ELSE PerformRequest([r EXCEPT !.accessToken = GetToken])]
    /\ UNCHANGED <<sessions, accessToken, refreshToken, amToken,
                   workPerms, created, calls, closer, normVars, serverVars>>

\* options.excelFile of the calls that may overlap: one file, or none
OverlapPaths == {"/Reports/Q1.xlsx"}

Next ==
    \/ \E d \in Dispatches, a \in {"tBearer"}, rt \in {"", "rBearer"} :
            SetOAuthTokens(d, a, rt)
    \/ \E d \in Dispatches, e \in Endpoints, f \in OverlapPaths \cup {""} :
            Start(d, e, f)
    \/ \E d \in Dispatches : GetTokenReturn(d)
    \/ \E d \in Dispatches, ok \in BOOLEAN : CreateReturn(d, ok)
    \/ \E d \in Dispatches, resp \in Responses : Respond(d, resp)
    \/ \E d \in Dispatches, ok \in BOOLEAN, rot \in BOOLEAN : RefreshReturn(d, ok, rot)
    \/ \E d \in Dispatches : CheckPermsReturn(d)
    \/ \E d \in Dispatches, ok \in BOOLEAN : ExpandReturn(d, ok)
    \/ \E d \in Dispatches : NewTokenReturn(d)

Spec == Init /\ [][Next]_vars

---------------------------------------------------------------------------
(* The same program when the callers do not overlap: a call arrives only   *)
(* when no other call is between its arrival and its return.               *)

InFlight(d) == disp[d].pc \notin {"idle", "done"}

Alone(d) == \A e \in Dispatches \ {d} : ~InFlight(e)

NextSeq ==
    \/ \E d \in Dispatches, a \in {"tBearer"}, rt \in {"", "rBearer"} :
            Alone(d) /\ SetOAuthTokens(d, a, rt)
    \/ \E d \in Dispatches, e \in Endpoints, f \in Paths \cup {""} :
            Alone(d) /\ Start(d, e, f)
    \/ \E d \in Dispatches : GetTokenReturn(d)
    \/ \E d \in Dispatches, ok \in BOOLEAN : CreateReturn(d, ok)
    \/ \E d \in Dispatches, resp \in Responses : Respond(d, resp)
    \/ \E d \in Dispatches, ok \in BOOLEAN, rot \in BOOLEAN : RefreshReturn(d, ok, rot)
    \/ \E d \in Dispatches : CheckPermsReturn(d)
    \/ \E d \in Dispatches, ok \in BOOLEAN : ExpandReturn(d, ok)
    \/ \E d \in Dispatches : NewTokenReturn(d)

SeqSpec == Init /\ [][NextSeq]_vars

---------------------------------------------------------------------------
(* HTTP mode with two users: every call arrives through the /mcp route,    *)
(* which hands the request's bearer token to the one GraphClient of the    *)
(* process (src/unnamed/part_001, lines 365-390).                          *)

\* The bearer token of the inbound request that record d serves
BearerOf(d) == IF d = 1 THEN "tBearer" ELSE "tBearer2"

NextBearer ==
    \/ \E d \in Dispatches, rt \in {"", "rBearer"} :
            SetOAuthTokens(d, BearerOf(d), rt)
    \/ \E d \in Dispatches, e \in Endpoints, f \in OverlapPaths \cup {""} :
            disp[d].pc = "inbound" /\ Start(d, e, f)
    \/ \E d \in Dispatches, ok \in BOOLEAN : CreateReturn(d, ok)
    \/ \E d \in Dispatches, resp \in Responses : Respond(d, resp)
    \/ \E d \in Dispatches, ok \in BOOLEAN, rot \in BOOLEAN : RefreshReturn(d, ok, rot)
    \/ \E d \in Dispatches : CheckPermsReturn(d)
    \/ \E d \in Dispatches, ok \in BOOLEAN : ExpandReturn(d, ok)
    \/ \E d \in Dispatches : NewTokenReturn(d)

BearerSpec == Init /\ [][NextBearer]_vars

---------------------------------------------------------------------------
(* The tool handler registerGraphTools installs for a catalog operation    *)
(* (src/src/graph-tools.ts, lines 88-222): it binds the caller's           *)
(* parameters and calls graphRequest(path, options).  Strings the handler  *)
(* computes on are character sequences.                                    *)

RECURSIVE IndexFrom(_, _, _)
IndexFrom(s, pat, i) ==
    IF i + Len(pat) > Len(s) + 1 THEN 0
    ELSE IF SubSeq(s, i, i + Len(pat) - 1) = pat THEN i
    ELSE IndexFrom(s, pat, i + 1)

\* String.prototype.indexOf, counted from 1; 0 when pat does not occur
IndexOf(s, pat) == IndexFrom(s, pat, 1)

\* path.includes('?')
Includes(s, pat) == IndexOf(s, pat) # 0

\* String.prototype.replace with a string pattern: the first occurrence is
\* replaced (the replacement never holds a "$": encodeURIComponent escapes it)
Replace(s, pat, new) ==
    LET i == IndexOf(s, pat)
    IN  IF i = 0 THEN s
        ELSE SubSeq(s, 1, i - 1) \o new \o SubSeq(s, i + Len(pat), Len(s))

\* encodeURIComponent on one character: letters and digits are kept
PercentEncoded(c) ==
    CASE c = "/" -> <<"%", "2", "F">>
      [] c = "$" -> <<"%", "2", "4">>
      [] c = ":" -> <<"%", "3", "A">>
      [] c = "?" -> <<"%", "3", "F">>
      [] c = "{" -> <<"%", "7", "B">>
      [] c = "}" -> <<"%", "7", "D">>
      [] OTHER -> <<c>>

RECURSIVE EncodeURIComponent(_)
EncodeURIComponent(s) ==
    IF s = <<>> THEN <<>>
    ELSE PercentEncoded(Head(s)) \o EncodeURIComponent(Tail(s))

\* String.prototype.toLowerCase / toUpperCase, on the letters the model uses
LowerChar(c) ==
    LET upper == <<"A","B","C","D","E","F","G","H","I","J","K","L","M",
                   "N","O","P","Q","R","S","T","U","V","W","X","Y","Z">>
        lower == <<"a","b","c","d","e","f","g","h","i","j","k","l","m",
                   "n","o","p","q","r","s","t","u","v","w","x","y","z">>
    IN  IF \E i \in 1..Len(upper) : upper[i] = c
        THEN lower[CHOOSE i \in 1..Len(upper) : upper[i] = c]
        ELSE c
ToLowerCase(s) == [i \in 1..Len(s) |-> LowerChar(s[i])]
ToUpperCase(m) == CASE m = "get" -> "GET" [] m = "post" -> "POST" [] OTHER -> m

OdataParams ==
    { <<"f","i","l","t","e","r">>, <<"s","e","l","e","c","t">>,
      <<"e","x","p","a","n","d">>, <<"o","r","d","e","r","b","y">>,
      <<"s","k","i","p">>, <<"t","o","p">>, <<"c","o","u","n","t">>,
      <<"s","e","a","r","c","h">>, <<"f","o","r","m","a","t">> }

\* Faulty variant: a reserved name is sent without the "$" prefix.
FixedParamNameUnprefixed(paramName) == paramName

FixedParamName(paramName) ==
    IF ToLowerCase(paramName) \in OdataParams
    THEN <<"$">> \o ToLowerCase(paramName)
    ELSE paramName

\* parameterDefinitions.find((p) => p.name === paramName); <<>> : undefined
ParamDef(tool, paramName) ==
    LET hits == {i \in 1..Len(tool.parameters) : tool.parameters[i].name = paramName}
    IN  IF hits = {} THEN <<>>
        ELSE <<tool.parameters[CHOOSE i \in hits : \A j \in hits : i <= j]>>

BodyName == <<"b","o","d","y">>

\* one round of the loop over Object.entries(params), lines 99-142
BindOne(tool, acc, paramName, paramValue) ==
    LET def == ParamDef(tool, paramName)
    IN  IF def # <<>>
        THEN CASE def[1].type = "Path" ->
                    [acc EXCEPT !.path =
                        Replace(Replace(@, <<"{">> \o paramName \o <<"}">>,
                                        EncodeURIComponent(paramValue)),
                                <<":">> \o paramName,
                                EncodeURIComponent(paramValue))]
               [] def[1].type = "Query" ->
                    [acc EXCEPT !.queryParams =
                        SetEntry(@, FixedParamName(paramName), paramValue)]
               [] def[1].type = "Body" -> [acc EXCEPT !.body = paramValue]
               [] def[1].type = "Header" ->
                    [acc EXCEPT !.headers =
                        SetEntry(@, FixedParamName(paramName), paramValue)]
               [] OTHER -> acc
        ELSE IF paramName = BodyName THEN [acc EXCEPT !.body = paramValue]
        ELSE acc

RECURSIVE Bind(_, _, _)
Bind(tool, acc, params) ==
    IF params = <<>> THEN acc
    ELSE Bind(tool, BindOne(tool, acc, Head(params).name, Head(params).value),
              Tail(params))

\* lines 144-149: key=value pairs joined with "&"
RECURSIVE QueryString(_)
QueryString(entries) ==
    IF entries = <<>> THEN <<>>
    ELSE EncodeURIComponent(Head(entries).key) \o <<"=">>
             \o EncodeURIComponent(Head(entries).value)
             \o (IF Len(entries) > 1 THEN <<"&">> ELSE <<>>)
             \o QueryString(Tail(entries))

\* lines 95-158: what the handler passes to graphRequest
ToolRequest(tool, params) ==
    LET acc == Bind(tool, [path |-> tool.path, queryParams |-> <<>>,
                           headers |-> <<>>, body |-> <<>>], params)
        path == IF acc.queryParams # <<>>
                THEN acc.path
                       \o (IF Includes(acc.path, <<"?">>) THEN <<"&">> ELSE <<"?">>)
                       \o QueryString(acc.queryParams)
                ELSE acc.path
        method == ToUpperCase(tool.method)
    IN  [ path |-> path, method |-> method, headers |-> acc.headers,
          body |-> IF method # "GET" /\ acc.body # <<>> THEN acc.body ELSE <<>> ]

\* Catalog operations and parameter objects the model calls the handler with
IdName == <<"i","d">>
TopName == <<"T","o","p">>
Value42 == <<"4","2">>
ValueSlash == <<"a","/","b">>

GetItem ==
    [ alias |-> "get-item", method |-> "get",
      path |-> <<"/","i","t","e","m","s","/","{","i","d","}">>,
      parameters |-> <<[name |-> IdName, type |-> "Path"]>> ]

GetMyItem ==
    [ alias |-> "get-my-item", method |-> "get",
      path |-> <<"/","m","e","/","i","t","e","m","s","/",":","i","d">>,
      parameters |-> <<[name |-> IdName, type |-> "Path"],
                       [name |-> TopName, type |-> "Query"]>> ]

\* an operation whose descriptor declares `id` under two tags
FindMyItem ==
    [ alias |-> "find-my-item", method |-> "get",
      path |-> <<"/","m","e","/","i","t","e","m","s","/",":","i","d">>,
      parameters |-> <<[name |-> IdName, type |-> "Path"],
                       [name |-> IdName, type |-> "Query"]>> ]

LowerTopName == <<"t","o","p">>
QName == <<"q">>
CountName == <<"c","o","u","n","t">>
IfMatchName == <<"I","f","-","M","a","t","c","h">>

\* an operation with reserved and other Query parameters
ListMyItems ==
    [ alias |-> "list-my-items", method |-> "get",
      path |-> <<"/","m","e","/","i","t","e","m","s">>,
      parameters |-> <<[name |-> TopName, type |-> "Query"],
                       [name |-> LowerTopName, type |-> "Query"],
                       [name |-> QName, type |-> "Query"]>> ]

\* an operation with Header parameters and a body
SendMyItem ==
    [ alias |-> "send-my-item", method |-> "post",
      path |-> <<"/","m","e","/","i","t","e","m","s">>,
      parameters |-> <<[name |-> IfMatchName, type |-> "Header"],
                       [name |-> CountName, type |-> "Header"],
                       [name |-> AuthorizationName, type |-> "Header"]>> ]

Tools == {GetItem, GetMyItem, FindMyItem, ListMyItems, SendMyItem}

ToolParams ==
    { <<[name |-> IdName, value |-> Value42]>>,
      <<[name |-> IdName, value |-> ValueSlash]>>,
      <<[name |-> IdName, value |-> Value42], [name |-> TopName, value |-> <<"5">>]>>,
      <<[name |-> QName, value |-> ValueSlash], [name |-> LowerTopName, value |-> <<"5">>]>>,
      <<[name |-> LowerTopName, value |-> <<"5">>], [name |-> TopName, value |-> Value42]>>,
      <<[name |-> IfMatchName, value |-> Value42], [name |-> BodyName, value |-> ValueSlash]>>,
      <<[name |-> CountName, value |-> <<"5">>], [name |-> BodyName, value |-> ValueSlash]>>,
      <<[name |-> AuthorizationName, value |-> ValueSlash]>> }

\* line 161: graphClient.graphRequest(path, options); options has no
\* excelFile
CallTool(d, tool, params) ==
    LET req == ToolRequest(tool, params)
    IN  StartRequest(d, req.path, "",
                     [method |-> req.method, headers |-> req.headers,
                      body |-> req.body])

\* Tool calls that do not overlap.  No call names a file, so no session is
\* ever requested.
NextTool ==
    \/ \E d \in Dispatches, a \in {"tBearer"}, rt \in {"", "rBearer"} :
            Alone(d) /\ SetOAuthTokens(d, a, rt)
    \/ \E d \in Dispatches, tool \in Tools, params \in ToolParams :
            Alone(d) /\ CallTool(d, tool, params)
    \/ \E d \in Dispatches : GetTokenReturn(d)
    \/ \E d \in Dispatches, resp \in Responses : Respond(d, resp)
    \/ \E d \in Dispatches, ok \in BOOLEAN, rot \in BOOLEAN : RefreshReturn(d, ok, rot)
    \/ \E d \in Dispatches : CheckPermsReturn(d)
    \/ \E d \in Dispatches, ok \in BOOLEAN : ExpandReturn(d, ok)
    \/ \E d \in Dispatches : NewTokenReturn(d)

ToolSpec == Init /\ [][NextTool]_vars

---------------------------------------------------------------------------
(* closeSession and closeAllSessions (lines 579-650), called while no      *)
(* graphRequest call is in progress.                                       *)

\* the keys of this.sessions in map `sess`
Cached(sess) == {p \in Paths : sess[p] # NoSession}

\* what closeSession returns: content text, isError
CloseResult(file, isError, text) ==
    [file |-> file, isError |-> isError, text |-> text]

\* closeSession(file) up to its first await
EnterClose(c, sess, file) ==
    IF file = "" \/ sess[file] = NoSession
    THEN [c EXCEPT !.pc = "done", !.file = file,
                   !.results = Append(@, CloseResult(file, FALSE,
                                   "No active session for the specified file"))]
    ELSE [c EXCEPT !.pc = "closeToken", !.file = file, !.sessionId = sess[file]]

\* The entries the Map iterator of closeAllSessions has still to yield: the
\* keys of the Map that it has not passed.  The Map yields them in insertion
\* order, which the model does not track: any of them may come next.
\* {""} : the iteration is over.
NextKeys(c, sess) ==
    IF Cached(sess) \ c.visited = {} THEN {""} ELSE Cached(sess) \ c.visited

\* Faulty variant: the loop of closeAllSessions ends at the first failure.
AfterCloseStopsOnError(c, res, sess, next) ==
    LET c2 == [c EXCEPT !.results = Append(@, res),
                        !.visited = (@ \cup {res.file}) \cap Cached(sess)]
    IN  IF ~c.all \/ next = "" \/ res.isError THEN [c2 EXCEPT !.pc = "done"]
        ELSE EnterClose(c2, sess, next)

\* closeSession returned `res`, `sess` being this.sessions at that time.
\* closeSession's caller has its result; closeAllSessions pushes it and goes
\* on with the next entry of the Map, `next`, or returns.
AfterClose(c, res, sess, next) ==
    LET c2 == [c EXCEPT !.results = Append(@, res),
                        !.visited = (@ \cup {res.file}) \cap Cached(sess)]
    IN  IF ~c.all \/ next = "" THEN [c2 EXCEPT !.pc = "done"]
        ELSE EnterClose(c2, sess, next)

NoneInFlight == \A d \in Dispatches : ~InFlight(d)
CloserFree == closer.pc \in {"idle", "done"}

\* closeSession(file) is called
CloseSession(file) ==
    /\ CloserFree /\ NoneInFlight
    /\ closer' = EnterClose([IdleCloser EXCEPT !.atCall = Cached(sessions)],
                            sessions, file)
    /\ UNCHANGED <<sessions, accessToken, refreshToken, amToken,
                   workPerms, created, disp, calls, normVars, serverVars>>

\* closeAllSessions() is called: the loop enters closeSession for the first
\* entry of the Map, or returns at once when the Map is empty
CloseAllSessions(first) ==
    /\ CloserFree /\ NoneInFlight
    /\ LET c == [IdleCloser EXCEPT !.all = TRUE, !.atCall = Cached(sessions)]
       IN  /\ first \in NextKeys(c, sessions)
           /\ closer' = IF first = "" THEN [c EXCEPT !.pc = "done"]
                         ELSE EnterClose(c, sessions, first)
    /\ UNCHANGED <<sessions, accessToken, refreshToken, amToken,
                   workPerms, created, disp, calls, normVars, serverVars>>

\* `await this.authManager.getToken()` of closeSession returned or threw;
\* a throw lands in the catch, which returns the error result
CloseTokenReturn(next) ==
    /\ closer.pc = "closeToken"
    /\ IF GetTokenThrows
       THEN LET res == CloseResult(closer.file, TRUE, "Failed to close session")
            IN  /\ next \in NextKeys([closer EXCEPT !.visited = @ \cup {closer.file}],
                                      sessions)
                /\ closer' = AfterClose(closer, res, sessions, next)
       ELSE /\ next = ""
            /\ closer' = [closer EXCEPT !.pc = "closing",
                               !.reqs = Append(@, [file |-> closer.file,
                                                   session |-> closer.sessionId,
                                                   token |-> GetToken])]
    /\ UNCHANGED <<sessions, accessToken, refreshToken, amToken,
                   workPerms, created, disp, calls, normVars, serverVars>>

\* the upstream answered the closeSession request ("ok": 2xx, "failed":
\* another status), or the fetch threw ("threw")
CloseRespond(outcome, next) ==
    /\ closer.pc = "closing"
    /\ LET sess == IF outcome = "ok"
                   THEN [sessions EXCEPT ![closer.file] = NoSession]
                   ELSE sessions
           res == IF outcome = "ok"
                  THEN CloseResult(closer.file, FALSE, "closed successfully")
                  ELSE CloseResult(closer.file, TRUE, "Failed to close session")
       IN  /\ next \in NextKeys([closer EXCEPT !.visited = @ \cup {closer.file}], sess)
           /\ sessions' = sess
           /\ closer' = AfterClose(closer, res, sess, next)
    /\ UNCHANGED <<accessToken, refreshToken, amToken,
                   workPerms, created, disp, calls, normVars, serverVars>>

NextClose ==
    \/ \E d \in Dispatches, a \in {"tBearer"}, rt \in {"", "rBearer"} :
            Alone(d) /\ CloserFree /\ SetOAuthTokens(d, a, rt)
    \/ \E d \in Dispatches, e \in Endpoints, f \in Paths \cup {""} :
            Alone(d) /\ CloserFree /\ Start(d, e, f)
    \/ \E d \in Dispatches : GetTokenReturn(d)
    \/ \E d \in Dispatches, ok \in BOOLEAN : CreateReturn(d, ok)
    \/ \E d \in Dispatches, resp \in Responses : Respond(d, resp)
    \/ \E d \in Dispatches, ok \in BOOLEAN, rot \in BOOLEAN : RefreshReturn(d, ok, rot)
    \/ \E d \in Dispatches : CheckPermsReturn(d)
    \/ \E d \in Dispatches, ok \in BOOLEAN : ExpandReturn(d, ok)
    \/ \E d \in Dispatches : NewTokenReturn(d)
    \/ \E f \in Paths \cup {""} : CloseSession(f)
    \/ \E first \in Paths \cup {""} : CloseAllSessions(first)
    \/ \E next \in Paths \cup {""} : CloseTokenReturn(next)
    \/ \E outcome \in {"ok", "failed", "threw"}, next \in Paths \cup {""} :
            CloseRespond(outcome, next)

CloseSpec == Init /\ [][NextClose]_vars

---------------------------------------------------------------------------
(* formatJsonResponse (lines 333-364) on its own: a caller hands it an    *)
(* object and gets the text of the result.                                 *)

\* Depth of the JSON values the calls are made with.
MaxDepth == 2

\* keys of the payloads: protocol metadata and one plain key
ODataKeys == {"@odata.context", "@odata.type", "@odata.nextLink", "@odata.count"}

\* key.startsWith('@odata.'), on the keys the model uses
StartsWithOData(key) == key \in ODataKeys

\* typeof x === 'object' (true of null as well)
TypeofObject(node) == node.kind \in {"object", "array", "null"}

KeyLists ==
    { <<"id">>,
      <<"@odata.context", "id">>,
      <<"id", "@odata.nextLink">>,
      <<"@odata.count", "@odata.type">> }

\* the object with the keys `keys`, in that order, each holding `value`
ObjOf(keys, value) == Obj([i \in 1..Len(keys) |-> [key |-> keys[i], value |-> value]])

RECURSIVE Payloads(_)
Payloads(depth) ==
    IF depth = 0 THEN {Null, Str("v")}
    ELSE LET below == Payloads(depth - 1)
         IN  below \cup {ObjOf(keys, v) : keys \in KeyLists, v \in below}
                   \cup {Arr(<<v>>) : v \in below}

RECURSIVE RemoveODataProps(_), RemoveFromEntries(_), RemoveFromItems(_)

\* Object.keys(obj).forEach on an object: an @odata. key is deleted, an
\* object-typed value of another key is descended into
RemoveFromEntries(entries) ==
    IF entries = <<>> THEN <<>>
    ELSE LET e == Head(entries)
         IN  IF StartsWithOData(e.key) THEN RemoveFromEntries(Tail(entries))
             ELSE <<[key |-> e.key,
                     value |-> IF TypeofObject(e.value)
                               THEN RemoveODataProps(e.value) ELSE e.value]>>
                      \o RemoveFromEntries(Tail(entries))

\* the same loop on an array: its keys are the indices
RemoveFromItems(items) ==
    IF items = <<>> THEN <<>>
    ELSE <<IF TypeofObject(Head(items))
           THEN RemoveODataProps(Head(items)) ELSE Head(items)>>
             \o RemoveFromItems(Tail(items))

\* removeODataProps(obj), lines 347-357: what obj is afterwards
RemoveODataProps(node) ==
    CASE node.kind = "object" -> Obj(RemoveFromEntries(node.val))
      [] node.kind = "array" -> Arr(RemoveFromItems(node.val))
      [] OTHER -> node

RECURSIVE Stringify(_), StringifyEntries(_), StringifyItems(_)

StringifyEntries(entries) ==
    IF entries = <<>> THEN <<>>
    ELSE <<Head(entries).key, ":">> \o Stringify(Head(entries).value)
             \o (IF Len(entries) > 1 THEN <<",">> ELSE <<>>)
             \o StringifyEntries(Tail(entries))

StringifyItems(items) ==
    IF items = <<>> THEN <<>>
    ELSE Stringify(Head(items))
             \o (IF Len(items) > 1 THEN <<",">> ELSE <<>>)
             \o StringifyItems(Tail(items))

\* JSON.stringify, as a sequence of tokens (white space left out)
Stringify(node) ==
    CASE node.kind = "object" -> <<"{">> \o StringifyEntries(node.val) \o <<"}">>
      [] node.kind = "array" -> <<"[">> \o StringifyItems(node.val) \o <<"]">>
      [] node.kind = "string" -> node.val
      [] OTHER -> <<"null">>

\* formatJsonResponse(data, rawResponse): removeODataProps works on the
\* caller's object itself
FormatJsonResponseCall ==
    /\ resultText = <<>>
    /\ IF rawResponse
       THEN callerData' = callerData /\ resultText' = Stringify(callerData)
       ELSE IF callerData = Null
       THEN callerData' = callerData /\ resultText' = Stringify(ObjOf(<<"success">>, Str("true")))
       ELSE callerData' = RemoveODataProps(callerData) /\ resultText' = Stringify(callerData')
    /\ UNCHANGED <<sessions, accessToken, refreshToken, amToken, workPerms,
                   created, disp, calls, closer, rawResponse, serverVars>>

InitNorm ==
    /\ InitClient
    /\ callerData \in Payloads(MaxDepth)
    /\ rawResponse \in BOOLEAN
    /\ resultText = <<>>
    /\ InitServer

NextNorm == FormatJsonResponseCall

NormSpec == InitNorm /\ [][NextNorm]_vars

---------------------------------------------------------------------------
(* Registration of the catalog operations as tools: registerGraphTools     *)
(* (src/src/graph-tools.ts, lines 61-225) as MicrosoftGraphServer          *)
(* .initialize calls it, and calls of the tools it registered.  The        *)
(* catalog is the one of test/tool-filtering.test.ts.                      *)

ListMailMessages ==
    [ alias |-> <<"l","i","s","t","-","m","a","i","l","-","m","e","s","s","a","g","e","s">>, method |-> "GET",
      path |-> <<"/","m","e","/","m","e","s","s","a","g","e","s">>, parameters |-> <<>> ]
SendMail ==
    [ alias |-> <<"s","e","n","d","-","m","a","i","l">>, method |-> "POST",
      path |-> <<"/","m","e","/","s","e","n","d","M","a","i","l">>, parameters |-> <<>> ]
ListCalendarEvents ==
    [ alias |-> <<"l","i","s","t","-","c","a","l","e","n","d","a","r","-","e","v","e","n","t","s">>,
      method |-> "GET", path |-> <<"/","m","e","/","e","v","e","n","t","s">>, parameters |-> <<>> ]
ListExcelWorksheets ==
    [ alias |-> <<"l","i","s","t","-","e","x","c","e","l","-","w","o","r","k","s","h","e","e","t","s">>,
      method |-> "GET",
      path |-> <<"/","w","o","r","k","b","o","o","k","/","w","o","r","k","s","h","e","e","t","s">>,
      parameters |-> <<>> ]
GetCurrentUser ==
    [ alias |-> <<"g","e","t","-","c","u","r","r","e","n","t","-","u","s","e","r">>,
      method |-> "GET", path |-> <<"/","m","e">>, parameters |-> <<>> ]

\* api.endpoints
ApiEndpoints ==
    {ListMailMessages, SendMail, ListCalendarEvents, ListExcelWorksheets, GetCurrentUser}

\* values of --enabled-tools / ENABLED_TOOLS
PatternMail == <<"m","a","i","l">>
PatternCalendarOrExcel == <<"c","a","l","e","n","d","a","r","|","e","x","c","e","l">>
PatternInvalid == <<"[","i","n","v","a","l","i","d"," ","r","e","g","e","x">>
PatternNonexistent == <<"n","o","n","e","x","i","s","t","e","n","t">>
EnabledTools ==
    {NoPattern, PatternMail, PatternCalendarOrExcel, PatternInvalid, PatternNonexistent}

\* Faulty variant: the pattern is compiled, and one that does not compile
\* ends the registration before any tool is registered.
RegisterGraphToolsCompiles(readOnly) ==
    IF options.enabledTools = PatternInvalid THEN {}
    ELSE { tool.alias : tool \in
             {t \in ApiEndpoints : ~(readOnly /\ ToUpperCase(t.method) # "GET")} }

\* the loop over api.endpoints, lines 66-224: the aliases server.tool is
\* called with.  The function declares the parameters server, graphClient
\* and readOnly.
RegisterGraphTools(readOnly) ==
    { tool.alias : tool \in
        {t \in ApiEndpoints : ~(readOnly /\ ToUpperCase(t.method) # "GET")} }

\* MicrosoftGraphServer.initialize: registerGraphTools(this.server,
\* this.graphClient, this.options.readOnly, this.options.enabledTools,
\* this.options.orgMode); the arguments after the third have no parameter
\* to receive them.
Initialize ==
    /\ serverPc = "constructed"
    /\ serverPc' = "initialized"
    /\ registered' = RegisterGraphTools(options.readOnly)
    /\ UNCHANGED <<clientVars, normVars, httpVars, routeVars, authVars, options, toolCalls>>

\* A client calls a registered tool: the handler (lines 88-161) calls
\* graphRequest(path, { method, headers }); the request is sent with that
\* method (performRequest, fetch(url, { method: options.method })) when a
\* token is at hand and the path has one of the routed prefixes.
CallRegisteredTool(tool) ==
    /\ serverPc = "initialized"
    /\ tool.alias \in registered
    /\ LET req == ToolRequest(tool, <<>>)
       IN  toolCalls' = toolCalls \cup
               { [ alias |-> tool.alias, method |-> req.method,
                   sent |-> /\ accessToken # "" \/ ~GetTokenThrows
                            /\ HasScopedPrefix(req.path) ] }
    /\ UNCHANGED <<clientVars, normVars, httpVars, routeVars, authVars, options, serverPc, registered>>

\* the options the server is started with: --read-only, --enabled-tools
InitReg ==
    /\ InitClient
    /\ callerData = Null /\ rawResponse = FALSE /\ resultText = <<>>
    /\ options \in [readOnly : BOOLEAN, enabledTools : EnabledTools]
    /\ serverPc = "constructed"
    /\ registered = {}
    /\ toolCalls = {}
    /\ InitAuthIdle
    /\ InitHttpIdle

NextReg ==
    \/ Initialize
    \/ \E tool \in ApiEndpoints : CallRegisteredTool(tool)

RegSpec == InitReg /\ [][NextReg]_vars

---------------------------------------------------------------------------
(* The tools registerAuthTools installs (src/unnamed/part_002): login,     *)
(* select-account and remove-account, and the --select-account /           *)
(* --remove-account options of main (src/src/index.ts, lines 57-77), which *)
(* make the same AuthManager calls.  Each action is the handler's code     *)
(* between two awaits.                                                     *)

AccountIds == {"acc-1", "acc-2"}
UnknownId == "unknown-id"

\* AuthManager.testLogin resolves to { success }: it can succeed only with
\* a credential at hand
TestLoginOutcomes == IF amToken = "" THEN {FALSE} ELSE BOOLEAN

\* AuthManager.selectAccount(id) / removeAccount(id): the value returned
AccountKnown(id) == id \in accounts

\* selected account after removeAccount(id): another cached account, if any,
\* takes the place of a removed selected account
SelectedAfterRemove(id) ==
    IF selectedAccount # id THEN {selectedAccount}
    ELSE IF accounts \ {id} = {} THEN {NoAccount}
    ELSE accounts \ {id}

\* Faulty variant: the current login is tested whatever `force` is.
LoginToolIgnoresForce(force) ==
    /\ login.pc \in {"idle", "done"}
    /\ login' = [IdleLogin EXCEPT !.pc = "testLogin", !.force = force, !.nTestLogin = 1]
    /\ UNCHANGED <<clientVars, normVars, httpVars, routeVars, regVars, accounts, selectedAccount, accountTool>>

\* login handler, lines 12-16 and 30-32: up to the first await
LoginTool(force) ==
    /\ login.pc \in {"idle", "done"}
    /\ login' = IF force
                THEN [IdleLogin EXCEPT !.pc = "deviceCode", !.force = TRUE,
                                       !.nDeviceCode = 1]
                ELSE [IdleLogin EXCEPT !.pc = "testLogin", !.nTestLogin = 1]
    /\ UNCHANGED <<clientVars, normVars, httpVars, routeVars, regVars, accounts, selectedAccount, accountTool>>

\* `await authManager.testLogin()` returned, lines 15-32
TestLoginReturn(success) ==
    /\ login.pc = "testLogin"
    /\ success \in TestLoginOutcomes
    /\ login' = IF success
                THEN [login EXCEPT !.pc = "done", !.success = "yes",
                                   !.text = "Already logged in"]
                ELSE [login EXCEPT !.pc = "deviceCode", !.success = "no",
                                   !.nDeviceCode = @ + 1]
    /\ UNCHANGED <<clientVars, normVars, httpVars, routeVars, regVars, accounts, selectedAccount, accountTool>>

\* acquireTokenByDeviceCode called the callback with the instructions: the
\* promise of line 30 resolves and the handler returns them, lines 33-40
DeviceCodeCallback ==
    /\ login.pc = "deviceCode"
    /\ login' = [login EXCEPT !.pc = "done", !.text = "Login instructions"]
    /\ UNCHANGED <<clientVars, normVars, httpVars, routeVars, regVars, accounts, selectedAccount, accountTool>>

\* acquireTokenByDeviceCode rejected before it called the callback: its
\* promise is not awaited, so nothing resolves the promise of line 30
DeviceCodeRejects ==
    /\ login.pc = "deviceCode"
    /\ login' = [login EXCEPT !.pc = "pending"]
    /\ UNCHANGED <<clientVars, normVars, httpVars, routeVars, regVars, accounts, selectedAccount, accountTool>>

\* select-account / remove-account (tool or option) up to the await.  A run
\* with the option is a process of its own, in which no tool is called; the
\* cached accounts outlive it.
AccountToolCall(op, id, cli) ==
    /\ accountTool.pc \in {"idle", "done"}
    /\ cli => login.pc = "idle"
    /\ accountTool' = [IdleAccountTool EXCEPT !.pc = op, !.accountId = id, !.cli = cli]
    /\ UNCHANGED <<clientVars, normVars, httpVars, routeVars, regVars, accounts, selectedAccount, login>>

\* Faulty variant: the value selectAccount returned is not looked at.
AccountToolResultAlwaysSuccess(r, success, message) ==
    [r EXCEPT !.pc = "done", !.text = message, !.exit = IF r.cli THEN "0" ELSE ""]

\* the handler's `if (success) ... else ...`, part_002 lines 132-150 and
\* 175-193, index.ts lines 58-64 and 69-75
AccountToolResult(r, success, message) ==
    IF success
    THEN [r EXCEPT !.pc = "done", !.text = message, !.exit = IF r.cli THEN "0" ELSE ""]
    ELSE [r EXCEPT !.pc = "done", !.text = "Account not found",
                   !.exit = IF r.cli THEN "1" ELSE ""]

\* `await authManager.selectAccount(accountId)` returned
SelectAccountReturn ==
    /\ accountTool.pc = "select-account"
    /\ LET id == accountTool.accountId
       IN  /\ selectedAccount' = IF AccountKnown(id) THEN id ELSE selectedAccount
           /\ accountTool' = AccountToolResult(accountTool, AccountKnown(id),
                                               "Selected account")
    /\ UNCHANGED <<clientVars, normVars, httpVars, routeVars, regVars, accounts, login>>

\* `await authManager.removeAccount(accountId)` returned
RemoveAccountReturn ==
    /\ accountTool.pc = "remove-account"
    /\ LET id == accountTool.accountId
       IN  /\ accounts' = accounts \ {id}
           /\ selectedAccount' \in
                  (IF AccountKnown(id) THEN SelectedAfterRemove(id) ELSE {selectedAccount})
           /\ accountTool' = AccountToolResult(accountTool, AccountKnown(id),
                                               "Removed account")
    /\ UNCHANGED <<clientVars, normVars, httpVars, routeVars, regVars, login>>

\* the accounts cached when the server starts
InitAuthTools ==
    /\ InitClient
    /\ callerData = Null /\ rawResponse = FALSE /\ resultText = <<>>
    /\ options = [readOnly |-> FALSE, enabledTools |-> NoPattern]
    /\ serverPc = "constructed"
    /\ registered = {}
    /\ toolCalls = {}
    /\ accounts \in SUBSET AccountIds
    /\ selectedAccount \in (IF accounts = {} THEN {NoAccount} ELSE accounts)
    /\ login = IdleLogin
    /\ accountTool = IdleAccountTool
    /\ InitHttpIdle

NextAuthTools ==
    \/ \E force \in BOOLEAN : LoginTool(force)
    \/ \E success \in BOOLEAN : TestLoginReturn(success)
    \/ DeviceCodeCallback
    \/ DeviceCodeRejects
    \/ \E op \in {"select-account", "remove-account"},
          id \in AccountIds \cup {UnknownId}, cli \in BOOLEAN :
            AccountToolCall(op, id, cli)
    \/ SelectAccountReturn
    \/ RemoveAccountReturn

AuthToolsSpec == InitAuthTools /\ [][NextAuthTools]_vars

---------------------------------------------------------------------------
(* HTTP mode: the /mcp routes of MicrosoftGraphServer.start.  The sources  *)
(* hold two versions of start: src/src/server.ts (lines 40-108) and        *)
(* src/unnamed/part_001 (lines 66-425); `build` says which one serves.     *)
(* Header values are character sequences, <<>> for a header that is        *)
(* absent; they arrive without leading or trailing blanks.                 *)

BearerPrefix == <<"B","e","a","r","e","r"," ">>

\* values of the Authorization header
AuthorizationHeaders ==
    { <<>>, <<"B","a","s","i","c"," ","d","X","N","l","c","g">>, <<"B","e","a","r","e","r">>, <<"B","e","a","r","e","r"," ","t","1">> }

\* values of the x-microsoft-refresh-token header
RefreshTokenHeaders == { <<>>, <<"r","1">> }

\* microsoftBearerTokenAuthMiddleware (lib/microsoft-auth.ts): whether next()
\* is called, and req.microsoftAuth
MicrosoftBearerTokenAuthMiddleware(authorization, refreshHeader) ==
    IF authorization = <<>> \/ ~StartsWith(authorization, BearerPrefix)
    THEN [next |-> FALSE, accessToken |-> <<>>, refreshToken |-> <<>>]
    ELSE [next |-> TRUE,
          accessToken |-> SubSeq(authorization, 8, Len(authorization)),
          refreshToken |-> refreshHeader]

\* part_001, lines 323-405: app.get / app.post('/mcp',
\* microsoftBearerTokenAuthMiddleware, handler); the handler calls
\* setOAuthTokens and hands the request to the transport
McpRoutePart001(method, authorization, refreshHeader) ==
    LET mw == MicrosoftBearerTokenAuthMiddleware(authorization, refreshHeader)
    IN  IF mw.next
        THEN /\ accessToken' = mw.accessToken
             /\ refreshToken' = IF mw.refreshToken = <<>> THEN "" ELSE mw.refreshToken
             /\ httpLog' = httpLog \cup
                    {[method |-> method, authorization |-> authorization,
                      outcome |-> "transport"]}
        ELSE /\ httpLog' = httpLog \cup
                    {[method |-> method, authorization |-> authorization,
                      outcome |-> "401"]}
             /\ UNCHANGED <<accessToken, refreshToken>>

\* server.ts, lines 67-101: app.post('/mcp', ...) only; a request with a
\* Bearer header goes through requireBearerAuth, which lets it pass when
\* the provider verifies the token (`verified`); any other request goes on
\* to the handler by next()
McpRouteServerTs(method, authorization, verified) ==
    /\ httpLog' = httpLog \cup
           {[method |-> method, authorization |-> authorization,
             outcome |-> IF method # "POST" THEN "404"
                         ELSE IF StartsWith(authorization, BearerPrefix)
                         THEN IF verified THEN "transport" ELSE "401"
                         ELSE "transport"]}
    /\ UNCHANGED <<accessToken, refreshToken>>

\* a client sends a request to /mcp
McpRequest(method, authorization, refreshHeader, verified) ==
    /\ IF build = "part_001"
       THEN verified /\ McpRoutePart001(method, authorization, refreshHeader)
       ELSE refreshHeader = <<>> /\ McpRouteServerTs(method, authorization, verified)
    /\ UNCHANGED <<sessions, amToken, workPerms, created, disp, calls, closer,
                   normVars, regVars, authVars, routeVars, build>>

InitHttp ==
    /\ InitClient
    /\ callerData = Null /\ rawResponse = FALSE /\ resultText = <<>>
    /\ options = [readOnly |-> FALSE, enabledTools |-> NoPattern]
    /\ serverPc = "constructed"
    /\ registered = {}
    /\ toolCalls = {}
    /\ InitAuthIdle
    /\ build \in {"part_001", "server.ts"}
    /\ httpLog = {}
    /\ route = IdleRoute

NextHttp ==
    \E method \in {"GET", "POST"}, authorization \in AuthorizationHeaders,
       refreshHeader \in RefreshTokenHeaders, verified \in BOOLEAN :
        McpRequest(method, authorization, refreshHeader, verified)

HttpSpec == InitHttp /\ [][NextHttp]_vars

---------------------------------------------------------------------------
(* The routing decision of the two dispatch paths of GraphClient: the      *)
(* active one (graphRequest -> makeRequest -> performRequest) and the      *)
(* legacy graphRequestOld, for the same endpoint and options.excelFile.    *)

EpSites == <<"/","s","i","t","e","s">>
EpWorkbook == <<"/","w","o","r","k","b","o","o","k">>

\* the prefixes graphRequestOld tests with startsWith
OldScopedPrefixes == ScopedPrefixes \cup {EpSites}

OldHasScopedPrefix(endpoint) == \E p \in OldScopedPrefixes : StartsWith(endpoint, p)

\* performRequest: which of its three branches takes the request
PerformRequestRoute(endpoint, file) ==
    LET r == PerformRequest([Idle EXCEPT !.endpoint = endpoint, !.excelFile = file,
                                         !.accessToken = "tBearer"])
    IN  IF r.pc = "creating" THEN "session"
        ELSE IF r.pc = "fetching"
             THEN IF r.sent[1].session # NoSession THEN "session" ELSE "prefix"
             ELSE "missing"

\* graphRequestOld: which of its three branches takes the request
GraphRequestOldRoute(endpoint, file) ==
    IF file # "" /\ ~OldHasScopedPrefix(endpoint) THEN "session"
    ELSE IF OldHasScopedPrefix(endpoint) THEN "prefix"
    ELSE "missing"

RouteSuffixes == {<<>>, <<"/","i","t","e","m","s">>}

RouteEndpoints ==
    {p \o x : p \in OldScopedPrefixes \cup {EpWorkbook}, x \in RouteSuffixes}

CallPerformRequest ==
    /\ route.pc = "called" /\ route.active = ""
    /\ route' = [route EXCEPT !.active = PerformRequestRoute(route.endpoint, route.excelFile)]
    /\ UNCHANGED <<clientVars, normVars, regVars, authVars, httpVars>>

CallGraphRequestOld ==
    /\ route.pc = "called" /\ route.legacy = ""
    /\ route' = [route EXCEPT !.legacy = GraphRequestOldRoute(route.endpoint, route.excelFile)]
    /\ UNCHANGED <<clientVars, normVars, regVars, authVars, httpVars>>

InitRoute ==
    /\ InitClient
    /\ callerData = Null /\ rawResponse = FALSE /\ resultText = <<>>
    /\ options = [readOnly |-> FALSE, enabledTools |-> NoPattern]
    /\ serverPc = "constructed"
    /\ registered = {}
    /\ toolCalls = {}
    /\ InitAuthIdle
    /\ build = "part_001"
    /\ httpLog = {}
    /\ route \in {[IdleRoute EXCEPT !.pc = "called", !.endpoint = e, !.excelFile = f] :
                    e \in RouteEndpoints, f \in Paths \cup {""}}

NextRoute == CallPerformRequest \/ CallGraphRequestOld

RouteSpec == InitRoute /\ [][NextRoute]_vars

---------------------------------------------------------------------------
(* Properties *)

Done(d) == disp[d].pc = "done"
First(d) == disp[d].responses[1]
Last(d) == disp[d].responses[Len(disp[d].responses)]
Answered(d) == Len(disp[d].responses) >= 1
Retried(d) == Len(disp[d].responses) = 2
ScopeDenied(resp) == resp.status = 403 /\ ScopeSignature(resp.body)
OnFile(d, p) == disp[d].excelFile = p /\ ~HasScopedPrefix(disp[d].endpoint)

\* C1: two overlapping calls for the same resource path issue one upstream
\* createSession request between them (the second waits for the first's
\* creation), and both send their request with the same session id.
C1_SingleFlightCreate ==
    \A d1, d2 \in Dispatches : \A p \in Paths :
        d1 # d2 /\ OnFile(d1, p) /\ OnFile(d2, p) =>
            /\ ~(disp[d1].pc = "creating" /\ disp[d2].pc = "creating")
            /\ (disp[d1].pc = "fetching" /\ disp[d2].pc = "fetching"
                /\ disp[d1].sessionId # NoSession /\ disp[d2].sessionId # NoSession
                    => disp[d1].sessionId = disp[d2].sessionId)

\* C2: with non-overlapping calls, once the upstream has created a session
\* for a path, that id is the only one ever created for the path and is the
\* cached one; no createSession request is outstanding for the path; and
\* every request sent for the path carries the cached id.
C2_OneHandlePerPath ==
    \A p \in Paths :
        /\ Cardinality(created[p]) <= 1
        /\ created[p] # {} => sessions[p] \in created[p]
        /\ created[p] = {} => sessions[p] = NoSession
        /\ \A d \in Dispatches :
              OnFile(d, p) /\ created[p] # {} =>
                  /\ disp[d].pc # "creating"
                  /\ disp[d].pc = "fetching" => disp[d].sessionId = sessions[p]

\* A second call found the session the first call created, created none
\* itself and sent its request with that id.
C2_Witness ==
    \E p \in Paths :
        \E d \in Dispatches :
            /\ calls = 2 /\ created[p] # {}
            /\ disp[d].pc = "fetching" /\ OnFile(d, p)
            /\ disp[d].nCreate = 0 /\ disp[d].attempts = 1
            /\ disp[d].sessionId # NoSession /\ disp[d].sessionId = sessions[p]

\* C3: a call whose first attempt got a 401 refreshed the token once and
\* made exactly one retry (or stopped because the refresh itself failed).
C3_RefreshAndRetryOn401 ==
    \A d \in Dispatches :
        Done(d) /\ Answered(d) /\ First(d).status = 401 =>
            /\ disp[d].nRefresh = 1
            /\ disp[d].attempts = 2 \/ disp[d].result.text = "Failed to refresh token"

\* C4: a 401 on the retry that followed a 401-triggered refresh ends the
\* call with an error result, after one refresh and one retry.
C4_Second401IsError ==
    \A d \in Dispatches :
        Done(d) /\ Retried(d) /\ First(d).status = 401 /\ Last(d).status = 401 =>
            /\ disp[d].result.isError
            /\ disp[d].nRefresh = 1 /\ disp[d].attempts = 2

\* C5: no call makes more than one token refresh, more than one scope
\* expansion or more than two attempts of the operation.
C5_BoundedRetries ==
    \A d \in Dispatches :
        /\ disp[d].attempts <= 2
        /\ Len(disp[d].responses) <= 2
        /\ disp[d].nRefresh <= 1
        /\ disp[d].nExpand <= 1

\* A call got a 401, refreshed, retried, and the retry got a scope 403:
\* nothing further was attempted.
C5_Witness ==
    \E d \in Dispatches :
        /\ Done(d) /\ Retried(d)
        /\ First(d).status = 401 /\ ScopeDenied(Last(d))
        /\ disp[d].nRefresh = 1 /\ disp[d].nExpand = 0 /\ disp[d].attempts = 2

\* C6: a call that received a scope-signature 403 either made exactly one
\* expansion attempt and at most one retry (base tier), or made no expansion
\* attempt and no retry and ended with an error (expanded tier).
C6_ExpansionOnScope403 ==
    \A d \in Dispatches :
        Done(d) /\ (\E i \in 1..Len(disp[d].responses) : ScopeDenied(disp[d].responses[i])) =>
            \/ /\ disp[d].hasWork # "yes"
               /\ disp[d].nExpand = 1 /\ disp[d].attempts <= 2
            \/ /\ disp[d].nExpand = 0 /\ disp[d].attempts = 1
               /\ disp[d].result.isError

\* C7: when the expansion is refused after a scope-signature 403 at base
\* tier, the call makes no retry and ends with the scope error that carries
\* the status and the body of that 403.
C7_ExpansionRefused ==
    \A d \in Dispatches :
        Done(d) /\ disp[d].expanded = "no" =>
            /\ disp[d].hasWork = "no"
            /\ disp[d].responses = <<First(d)>> /\ ScopeDenied(First(d))
            /\ disp[d].attempts = 1
            /\ disp[d].result =
                   ErrorResult("Microsoft Graph API scope error", 403, First(d).body)

\* A call ended after its expansion was refused.
C7_Witness ==
    \E d \in Dispatches :
        /\ Done(d) /\ disp[d].expanded = "no" /\ disp[d].nExpand = 1
        /\ ScopeDenied(First(d)) /\ disp[d].result.isError

\* C8: when the expansion succeeded and the retry still got a 403, the call
\* ends with the scope error carrying the original body.
C8_Retry403IsError ==
    \A d \in Dispatches :
        Done(d) /\ disp[d].expanded = "yes" /\ Retried(d) /\ Last(d).status = 403 =>
            disp[d].result =
                ErrorResult("Microsoft Graph API scope error", 403, First(d).body)

\* C9: a first response that is not 2xx, not 401 and not a scope-signature
\* 403 ends the call at once (no refresh, no expansion, no retry) with an
\* error result that carries the upstream status and the upstream body.
C9_OtherStatusTerminal ==
    \A d \in Dispatches :
        Done(d) /\ Answered(d) /\ ~Ok(First(d)) /\ First(d).status # 401
                /\ ~ScopeDenied(First(d)) =>
            /\ disp[d].attempts = 1 /\ disp[d].nRefresh = 0 /\ disp[d].nExpand = 0
            /\ disp[d].result.isError
            /\ disp[d].result.status = First(d).status
            /\ disp[d].result.body = First(d).body

\* C10: a call whose upstream response is a 204 ends with a success result.
C10_NoContentIsSuccess ==
    \A d \in Dispatches :
        Done(d) /\ Answered(d) /\ Last(d).status = 204 => ~disp[d].result.isError

\* C11: every request sent to the resource-scoped URL form (the path
\* rewritten under the file path) carries a session id; a session that
\* could not be created means the request is not sent.
C11_ScopedRequestHasSession ==
    \A d \in Dispatches :
        disp[d].pc = "fetching" =>
            \A i \in 1..Len(disp[d].sent) :
                disp[d].sent[i].url.root # "" =>
                    disp[d].sent[i].session # NoSession

\* C12: a call whose path starts with a resource-scoped prefix creates no
\* session and attaches none, and each of its requests goes to the base URL
\* followed by the unchanged path, with or without a file path given.
C12_PrefixedPathIsPlain ==
    \A d \in Dispatches :
        InFlight(d) /\ HasScopedPrefix(disp[d].endpoint) =>
            /\ disp[d].pc # "creating"
            /\ disp[d].nCreate = 0
            /\ disp[d].sessionId = NoSession
            /\ \A i \in 1..Len(disp[d].sent) :
                  /\ disp[d].sent[i].url = PlainUrl(disp[d].endpoint)
                  /\ disp[d].sent[i].session = NoSession

\* A call with a prefixed path and a file path, whose file has a cached
\* session, sent its request to the plain URL without the session.
C12_Witness ==
    \E d \in Dispatches :
        /\ disp[d].pc = "fetching" /\ HasScopedPrefix(disp[d].endpoint)
        /\ disp[d].excelFile \in Paths
        /\ sessions[disp[d].excelFile] # NoSession
        /\ Len(disp[d].sent) = 1
        /\ disp[d].sent[1].url = PlainUrl(disp[d].endpoint)
        /\ disp[d].sent[1].session = NoSession

\* C19: two overlapping calls that each got a 401 under the same refresh
\* token do not both have a token-refresh request outstanding.
C19_SingleFlightRefresh ==
    \A d1, d2 \in Dispatches :
        d1 # d2 /\ disp[d1].pc = "refreshing" /\ disp[d2].pc = "refreshing" =>
            disp[d1].refreshToken # disp[d2].refreshToken

C20_NoCredentialFailsBeforeSending ==
    [][\A d \in Dispatches :
          GetTokenReturn(d) /\ amToken = "" =>
              /\ disp'[d] = Finished(Idle, ErrorResult("No valid token found", 0, ""))
              /\ sessions' = sessions /\ created' = created]_vars

\* A call ended with the getToken error while no account is cached.
C20_Witness ==
    \E d \in Dispatches :
        /\ Done(d) /\ amToken = ""
        /\ disp[d].result = ErrorResult("No valid token found", 0, "")
        /\ disp[d].attempts = 0 /\ disp[d].nCreate = 0

\* C14: with a cached token at base tier and no bearer token, the tool call
\* GET /items/{id} with id = "42" asks for the token with the path /items/42,
\* then sends one request to /items/42 carrying the cached token and no
\* session, and a 2xx answer ends the call after that one attempt.
C14_PathParameterRequest ==
    [][LET Items42 == <<"/","i","t","e","m","s","/","4","2">>
       IN  \A d \in Dispatches :
              /\ CallTool(d, GetItem, <<[name |-> IdName, value |-> Value42]>>)
                      /\ accessToken = ""
                   => disp'[d].pc = "getToken" /\ disp'[d].endpoint = Items42
              /\ GetTokenReturn(d) /\ disp[d].endpoint = Items42
                      /\ amToken = "tAM" /\ ~workPerms
                   => /\ disp'[d].pc = "fetching"
                      /\ Len(disp'[d].sent) = 1
                      /\ disp'[d].sent[1].url = PlainUrl(Items42)
                      /\ disp'[d].sent[1].token = "tAM"
                      /\ disp'[d].sent[1].session = NoSession
              /\ \A resp \in Responses :
                    Respond(d, resp) /\ disp[d].endpoint = Items42 /\ Ok(resp)
                        => disp'[d].pc = "done" /\ disp'[d].attempts = 1]_vars

\* C15: a closeSession call on a path with a cached session sends one
\* closeSession request upstream and, when it returns, the path has no cached
\* session, whatever the upstream did; the call returns a result.
C15_CloseEvicts ==
    [][closer.pc \in {"closeToken", "closing"} /\ ~closer.all
           /\ closer'.pc = "done"
         => /\ Len(closer'.reqs) = 1
            /\ sessions'[closer.file] = NoSession
            /\ Len(closer'.results) = 1]_vars

C17_KeepsPaginationKeys ==
    [][FormatJsonResponseCall /\ ~rawResponse =>
          /\ \A i \in 1..Len(resultText') :
                resultText'[i] \in {"@odata.context", "@odata.type"} => resultText'[i + 1] # ":"
          /\ \A k \in {"@odata.nextLink", "@odata.count"} :
                (\E i \in 1..Len(Stringify(callerData)) - 1 :
                     Stringify(callerData)[i] = k /\ Stringify(callerData)[i + 1] = ":")
                => (\E i \in 1..Len(resultText') - 1 :
                     resultText'[i] = k /\ resultText'[i + 1] = ":")]_vars

\* C18: a formatJsonResponse call leaves the object it was given as it was.
C18_DataNotMutated ==
    [][FormatJsonResponseCall => callerData' = callerData]_vars

\* C21: every call that ended in failure (no credential, no routing, a
\* session that could not be created, or a last upstream response that is
\* not 2xx) ended with a result whose isError is set.
C21_FailuresCarryErrorFlag ==
    \A d \in Dispatches :
        Done(d) /\ (~Answered(d) \/ ~Ok(Last(d))) => disp[d].result.isError

\* C22: the scope tier never goes back from expanded to base, and a call
\* that asks for the tier once it is expanded does not start another
\* expansion.
C22_ScopeTierMonotonic ==
    [][/\ workPerms => workPerms'
       /\ \A d \in Dispatches :
              workPerms /\ disp[d].pc = "checkPerms" => disp'[d].pc # "expanding"]_vars

\* After an expansion a call received a scope 403, found the tier expanded
\* and ended with the scope error without expanding again.
C22_Witness ==
    \E d \in Dispatches :
        /\ workPerms /\ Done(d) /\ disp[d].hasWork = "yes"
        /\ Answered(d) /\ ScopeDenied(First(d)) /\ disp[d].nExpand = 0
        /\ disp[d].result.isError

\* C24 as stated: no refresh is ever attempted by a call that sent the
\* token handed in by the inbound request.
C24_ExternalTokenNeverRefreshed ==
    \A d \in Dispatches :
        disp[d].pc = "refreshing" => disp[d].accessToken # "tBearer"

\* C24 as amended: the first attempt of a call carries the token the call
\* took, unchanged; a refresh is attempted only by a call that holds a
\* refresh token; and a 401 answered without a refresh ends the call with
\* an error after that one attempt.
C24_RefreshOnlyWithRefreshToken ==
    \A d \in Dispatches :
        /\ disp[d].pc = "fetching" /\ disp[d].attempts = 1 =>
               /\ disp[d].accessToken # ""
               /\ disp[d].sent[1].token = disp[d].accessToken
        /\ disp[d].pc = "refreshing" => disp[d].refreshToken # ""
        /\ Done(d) /\ Answered(d) /\ First(d).status = 401 /\ disp[d].nRefresh = 0 =>
               disp[d].attempts = 1 /\ disp[d].result.isError

\* The only call so far came with a bearer token and no refresh token, got
\* a 401 and ended with an error without a refresh.
C24_Witness ==
    /\ calls = 1 /\ accessToken = "tBearer" /\ refreshToken = ""
    /\ Done(1) /\ Answered(1) /\ First(1).status = 401
    /\ disp[1].nRefresh = 0 /\ disp[1].attempts = 1 /\ disp[1].result.isError

\* No parameter name of the descriptor is declared under two tags.
TagsExclusive(tool) ==
    \A i, j \in 1..Len(tool.parameters) :
        tool.parameters[i].name = tool.parameters[j].name
            => tool.parameters[i].type = tool.parameters[j].type

\* C30: a tool call on an operation whose descriptor declares one parameter
\* name under two different tags is rejected: it ends at once with an error
\* result and nothing is bound or sent.
C30_DuplicateTagsRejected ==
    [][\A d \in Dispatches, tool \in Tools, params \in ToolParams :
          CallTool(d, tool, params) /\ ~TagsExclusive(tool)
              => /\ disp'[d].pc = "done"
                 /\ disp'[d].result.isError
                 /\ disp'[d].attempts = 0]_vars

\* What the enabled-tools option means: the pattern is a regular expression
\* tested against the alias.  The patterns used are alternatives of plain
\* words; one with an unclosed "[" is not a regular expression.
RECURSIVE Alternatives(_)
Alternatives(pattern) ==
    LET i == IndexOf(pattern, <<"|">>)
    IN  IF i = 0 THEN {pattern}
        ELSE {SubSeq(pattern, 1, i - 1)}
                 \cup Alternatives(SubSeq(pattern, i + 1, Len(pattern)))

ValidRegExp(pattern) ==
    \A i \in 1..Len(pattern) :
        pattern[i] = "[" => \E j \in (i + 1)..Len(pattern) : pattern[j] = "]"

RegExpTest(pattern, alias) == \E w \in Alternatives(pattern) : Includes(alias, w)

Aliases(tools) == {t.alias : t \in tools}
IsGet(tool) == tool.method \in {"GET", "get"}

\* C25: in read-only mode every registered tool is a GET operation that
\* also passes the name filter, and every request a tool call sends has
\* the method GET.
C25_ReadOnlyRegistersGetOnly ==
    serverPc = "initialized" /\ options.readOnly =>
        /\ \A t \in ApiEndpoints : t.alias \in registered =>
               /\ IsGet(t)
               /\ options.enabledTools # NoPattern /\ ValidRegExp(options.enabledTools)
                     => RegExpTest(options.enabledTools, t.alias)
        /\ \A c \in toolCalls : c.sent => c.method = "GET"

\* C26: without read-only mode, registerGraphTools registers every catalog
\* operation when no pattern is given and, given a pattern that is a
\* regular expression, exactly the operations whose alias matches it.
C26_PatternSelectsTools ==
    serverPc = "initialized" /\ ~options.readOnly =>
        IF options.enabledTools = NoPattern
        THEN registered = Aliases(ApiEndpoints)
        ELSE ValidRegExp(options.enabledTools) =>
                registered = Aliases({t \in ApiEndpoints :
                                         RegExpTest(options.enabledTools, t.alias)})

\* C27: with a pattern that is not a regular expression the registration
\* completes and registers what it registers without a pattern: every
\* catalog operation, or every GET operation in read-only mode.
C27_InvalidPatternRegistersAll ==
    serverPc = "initialized" /\ options.enabledTools # NoPattern
            /\ ~ValidRegExp(options.enabledTools) =>
        registered = Aliases({t \in ApiEndpoints : options.readOnly => IsGet(t)})

\* The server was started with the pattern "[invalid regex", all five
\* catalog operations are registered and one of them has been called.
C27_Witness ==
    /\ serverPc = "initialized" /\ options.enabledTools = PatternInvalid
    /\ ~options.readOnly /\ Cardinality(registered) = 5
    /\ toolCalls # {}

\* C28: a login call with force=false asks testLogin once before anything
\* else; when testLogin succeeds the call returns 'Already logged in' and no
\* device-code flow is started, otherwise exactly one is started; a call
\* with force=true never asks testLogin and starts exactly one flow; and a
\* call that returns after a flow returns the instructions.
C28_LoginChecksBeforeDeviceCode ==
    login.pc # "idle" =>
        /\ login.force => login.nTestLogin = 0 /\ login.nDeviceCode = 1
        /\ ~login.force => login.nTestLogin = 1
        /\ login.success = "yes" =>
               /\ login.nDeviceCode = 0
               /\ login.pc = "done" /\ login.text = "Already logged in"
        /\ login.success = "no" => login.nDeviceCode = 1
        /\ login.pc = "testLogin" => login.nDeviceCode = 0
        /\ login.pc = "done" /\ login.nDeviceCode = 1 => login.text = "Login instructions"
        /\ login.text = "Already logged in" => login.success = "yes"

\* A call with force=false found no valid login, started the device-code
\* flow and returned its instructions.
C28_Witness ==
    /\ login.pc = "done" /\ ~login.force /\ login.success = "no"
    /\ login.nTestLogin = 1 /\ login.nDeviceCode = 1
    /\ login.text = "Login instructions"

\* C23: when selectAccount or removeAccount is called with an id that no
\* cached account has, the call returns without an error, the cached
\* accounts and the selected account stay as they were, and the tool (or
\* the command-line option, which then exits with code 1) reports
\* 'Account not found'.
C23_UnknownAccountNotFound ==
    [][(/\ accountTool.pc \in {"select-account", "remove-account"}
        /\ accountTool.accountId \notin accounts
        /\ accountTool' # accountTool)
          => /\ accounts' = accounts /\ selectedAccount' = selectedAccount
             /\ accountTool'.pc = "done"
             /\ accountTool'.text = "Account not found"
             /\ accountTool'.exit = IF accountTool.cli THEN "1" ELSE ""]_vars

\* select-account or remove-account was called with "unknown-id" while
\* accounts were cached, and reported 'Account not found'.
C23_Witness ==
    /\ accountTool.pc = "done" /\ accountTool.accountId = UnknownId
    /\ accountTool.text = "Account not found"
    /\ accounts = AccountIds /\ selectedAccount \in accounts

\* The request carries `Authorization: Bearer <token>`.
HasBearerToken(authorization) ==
    StartsWith(authorization, BearerPrefix) /\ Len(authorization) > Len(BearerPrefix)

\* C29: no /mcp request without an `Authorization: Bearer <token>` header
\* reaches the MCP transport.
C29_McpRequiresBearer ==
    \A r \in httpLog : ~HasBearerToken(r.authorization) => r.outcome # "transport"

\* C38: no login call is left waiting for a device-code flow that has
\* rejected before it delivered instructions: such a call ends with
\* 'Authentication failed'.
C38_LoginAlwaysReturns ==
    /\ login.pc # "pending"
    /\ login.pc = "done" =>
           login.text \in {"Already logged in", "Login instructions", "Authentication failed"}

\* C33: the retry that follows a 401 on a request that carried a session
\* handle carries a handle created after the token refresh, never the handle
\* of the first attempt.
C33_SessionRecreatedOn401 ==
    \A d \in Dispatches :
        /\ disp[d].pc = "fetching" /\ disp[d].attempts = 2
        /\ disp[d].nRefresh = 1
        /\ disp[d].sent[1].session # NoSession
        => disp[d].sent[2].session # disp[d].sent[1].session

\* C36: a session handle is attached only to requests that carry the token
\* it was created with: the handle a call created for its first attempt is
\* on no later request of that call sent with another token.
C36_HandleStaysWithItsToken ==
    \A d \in Dispatches :
        /\ disp[d].nCreate >= 1 /\ Len(disp[d].sent) >= 1
        /\ disp[d].sent[1].session # NoSession
        => \A i \in 1..Len(disp[d].sent) :
               disp[d].sent[i].session = disp[d].sent[1].session =>
                   disp[d].sent[i].token = disp[d].sent[1].token

\* C35: the first upstream request made for an inbound /mcp request carries
\* the bearer token of that inbound request, whatever other inbound
\* requests arrived in between.
C35_RequestCarriesOwnBearer ==
    \A d \in Dispatches :
        disp[d].pc = "fetching" /\ disp[d].attempts = 1 =>
            disp[d].sent[1].token = BearerOf(d)

\* C37: performRequest and graphRequestOld put an endpoint into the same
\* routing case (session-scoped, resource-scoped prefix, missing resource
\* context) for the same options.excelFile; a path under /sites is a
\* resource-scoped prefix for both.
C37_SameRoutingCase ==
    /\ route.active # "" /\ route.legacy # "" => route.active = route.legacy
    /\ route.active # "" /\ StartsWith(route.endpoint, EpSites) => route.active = "prefix"
    /\ route.legacy # "" /\ StartsWith(route.endpoint, EpSites) => route.legacy = "prefix"

\* The reserved query names, and a name with the upstream prefix.
ReservedQueryNames ==
    { <<"f","i","l","t","e","r">>, <<"s","e","l","e","c","t">>,
      <<"e","x","p","a","n","d">>, <<"o","r","d","e","r","b","y">>,
      <<"s","k","i","p">>, <<"t","o","p">>, <<"c","o","u","n","t">>,
      <<"s","e","a","r","c","h">>, <<"f","o","r","m","a","t">> }
Prefixed(name) == <<"$">> \o name

\* The query string of the path holds name=value, both percent-encoded.
HasQueryPair(path, name, value) ==
    \E sep \in {"?", "&"} :
        Includes(path, <<sep>> \o EncodeURIComponent(name) \o <<"=">>
                           \o EncodeURIComponent(value))

\* The parameter is Query-tagged for the handler: the first descriptor of
\* its name is.
BoundAsQuery(tool, name) ==
    /\ \E i \in 1..Len(tool.parameters) : tool.parameters[i].name = name
    /\ LET first == CHOOSE i \in 1..Len(tool.parameters) :
                        /\ tool.parameters[i].name = name
                        /\ \A j \in 1..(i - 1) : tool.parameters[j].name # name
       IN  tool.parameters[first].type = "Query"

\* C31, as claimed: every supplied Query-tagged parameter is in the query
\* string of the request, percent-encoded, under $name when its name is one
\* of the reserved names and under its own name otherwise.
C31_QueryParametersSent ==
    [][\A d \in Dispatches, tool \in Tools, params \in ToolParams :
          CallTool(d, tool, params) =>
              \A i \in 1..Len(params) :
                  BoundAsQuery(tool, params[i].name) =>
                      HasQueryPair(disp'[d].endpoint,
                                   IF params[i].name \in ReservedQueryNames
                                   THEN Prefixed(params[i].name)
                                   ELSE params[i].name,
                                   params[i].value)]_vars

\* The name the handler sends a Query parameter under: reserved names are
\* recognised whatever their case and sent in lower case with the prefix.
SentQueryName(name) ==
    IF ToLowerCase(name) \in ReservedQueryNames
    THEN Prefixed(ToLowerCase(name))
    ELSE name

\* C31, amended: every supplied Query-tagged parameter is in the query
\* string, percent-encoded, under $ and the lower case of its name when
\* that lower case is a reserved name and under its own name otherwise,
\* unless a later supplied parameter is sent under the same name.
C31_QueryParametersSentAnyCase ==
    [][\A d \in Dispatches, tool \in Tools, params \in ToolParams :
          CallTool(d, tool, params) =>
              \A i \in 1..Len(params) :
                  /\ BoundAsQuery(tool, params[i].name)
                  /\ \A j \in (i + 1)..Len(params) :
                         ~(/\ BoundAsQuery(tool, params[j].name)
                           /\ SentQueryName(params[j].name) = SentQueryName(params[i].name))
                  => HasQueryPair(disp'[d].endpoint, SentQueryName(params[i].name),
                                  params[i].value)]_vars

\* C31 witness: a call in progress whose path carries a percent-encoded
\* value under an unreserved name and a reserved name with its prefix
C31_Witness ==
    \E d \in Dispatches :
        /\ disp[d].pc \in {"getToken", "fetching"}
        /\ disp[d].endpoint = <<"/","m","e","/","i","t","e","m","s","?","q","=","a","%","2","F","b","&","%","2","4","t","o","p","=","5">>

\* The parameter is Header-tagged for the handler.
BoundAsHeader(tool, name) ==
    /\ \E i \in 1..Len(tool.parameters) : tool.parameters[i].name = name
    /\ LET first == CHOOSE i \in 1..Len(tool.parameters) :
                        /\ tool.parameters[i].name = name
                        /\ \A j \in 1..(i - 1) : tool.parameters[j].name # name
       IN  tool.parameters[first].type = "Header"

HasHeader(entries, key, value) ==
    \E i \in 1..Len(entries) : entries[i].key = key /\ entries[i].value = value

\* C32: every supplied Header-tagged parameter is a header of the request
\* under its declared name and with its supplied value, a name equal to a
\* reserved query name included: it is in the headers the handler passes to
\* graphRequest and in the headers of the request sent.
C32_HeaderParametersVerbatim ==
    [][\A d \in Dispatches, tool \in Tools, params \in ToolParams :
          CallTool(d, tool, params) =>
              \A i \in 1..Len(params) :
                  BoundAsHeader(tool, params[i].name) =>
                      /\ HasHeader(disp'[d].options.headers, params[i].name,
                                   params[i].value)
                      /\ disp'[d].pc = "fetching" =>
                             HasHeader(disp'[d].sent[1].headers, params[i].name,
                                       TextValue(params[i].value))]_vars

\* C39: every request sent carries 'Authorization: Bearer <token>' with the
\* token the dispatcher chose for the attempt and, when it uses a session,
\* the session header with the handle; no header of the caller takes the
\* place of either.
C39_CallerCannotReplaceAuthHeaders ==
    \A d \in Dispatches : \A i \in 1..Len(disp[d].sent) :
        /\ HasHeader(disp[d].sent[i].headers, AuthorizationName,
                     BearerValue(disp[d].sent[i].token))
        /\ disp[d].sent[i].session # NoSession =>
               HasHeader(disp[d].sent[i].headers, SessionHeaderName,
                         SessionValue(disp[d].sent[i].session))

\* The headers other than the two the dispatcher computes per attempt.
IsCallerSide(entry) == entry.key \notin {AuthorizationName, SessionHeaderName}
OtherHeaders(entries) == SelectSeq(entries, IsCallerSide)

\* C34: every attempt after the first has the method, the URL with its query
\* string, the body and the caller's headers of the first attempt; the
\* token and the session header are all that may differ.
C34_RetryPreservesRequest ==
    \A d \in Dispatches : \A i \in 2..Len(disp[d].sent) :
        /\ disp[d].sent[i].method = disp[d].sent[1].method
        /\ disp[d].sent[i].url = disp[d].sent[1].url
        /\ disp[d].sent[i].body = disp[d].sent[1].body
        /\ OtherHeaders(disp[d].sent[i].headers) = OtherHeaders(disp[d].sent[1].headers)
        /\ \A k \in 1..Len(disp[d].options.headers) :
              /\ HasHeader(disp[d].sent[1].headers, disp[d].options.headers[k].key,
                           TextValue(disp[d].options.headers[k].value))
              /\ HasHeader(disp[d].sent[i].headers, disp[d].options.headers[k].key,
                           TextValue(disp[d].options.headers[k].value))

\* C34 witness: the retry of a POST with a body and a caller's header, sent
\* with another token than the first attempt
C34_Witness ==
    \E d \in Dispatches :
        /\ disp[d].pc = "fetching" /\ disp[d].attempts = 2
        /\ disp[d].sent[2].method = "POST"
        /\ disp[d].sent[2].body # <<>>
        /\ disp[d].options.headers # <<>>
        /\ disp[d].sent[2].token # disp[d].sent[1].token

====
